---- MODULE Spec2Model ----
(***************************************************************************)
(* stdex::variant<Ts...> (extended_variant.hpp): the storage slot, the     *)
(* discriminator, the default constructor, the destructor and the const    *)
(* query methods, with the compile-time helpers (index_of, discriminator,  *)
(* max_size, max_align) as operators.                                      *)
(*                                                                         *)
(* Type counts are 4-limb base-65536 numerals, most significant limb       *)
(* first, so that 2^32 and size_t's maximum can be written.  Sizes and     *)
(* alignments are those of an LP64 target.                                 *)
(***************************************************************************)
EXTENDS Integers, Sequences, FiniteSets, TLC

(* ---------------------------------------------------------------- bounds *)

\* longest explicitly enumerated type list
MaxTypes == 3

\* the side-effect counter `val` starts in 1..MaxBaseline
MaxBaseline == 2

(* ------------------------------------------------------ alternative types *)

\* the alternatives used by the test programs
Types == {"dummy", "char16_t", "int", "float", "long"}

sizeof_(T) ==
    CASE T = "dummy"    -> 1
      [] T = "char16_t" -> 2
      [] T = "int"      -> 4
      [] T = "float"    -> 4
      [] T = "long"     -> 8

alignof_(T) ==
    CASE T = "dummy"    -> 1
      [] T = "char16_t" -> 2
      [] T = "int"      -> 4
      [] T = "float"    -> 4
      [] T = "long"     -> 8

\* std::is_scalar_v<T>: dummy is the one class type
is_scalar(T) == T # "dummy"

\* dummy declares no operator==
has_equality(T) == T # "dummy"

\* value written by dummy::dummy() into its field
DummyField == 20

\* value written by dummy::~dummy() into val
DtorSentinel == 123

(* ------------------------------------------------------------ type counts *)

uint8_max == 255

uint16_max == 65535

LimbBase == uint16_max + 1

UINT8_MAX == <<0, 0, 0, uint8_max>>

UINT16_MAX == <<0, 0, 0, uint16_max>>

UINT32_MAX == <<0, 0, uint16_max, uint16_max>>

SIZE_MAX == <<uint16_max, uint16_max, uint16_max, uint16_max>>

\* a small natural number as a count
Count(n) == <<0, 0, n \div LimbBase, n % LimbBase>>

\* a <= b on counts
RECURSIVE LeqFrom(_, _, _)
LeqFrom(a, b, i) ==
    IF i > Len(a) THEN TRUE
    ELSE IF a[i] < b[i] THEN TRUE
    ELSE IF a[i] > b[i] THEN FALSE
    ELSE LeqFrom(a, b, i + 1)

Leq(a, b) == LeqFrom(a, b, 1)

\* a + 1 on counts (a below SIZE_MAX)
RECURSIVE SuccFrom(_, _)
SuccFrom(a, i) ==
    IF i = 0 THEN a
    ELSE IF a[i] < LimbBase - 1 THEN [a EXCEPT ![i] = a[i] + 1]
    ELSE SuccFrom([a EXCEPT ![i] = 0], i - 1)

Succ(a) == SuccFrom(a, Len(a))

\* a - 1 on counts (a above zero)
RECURSIVE PredFrom(_, _)
PredFrom(a, i) ==
    IF i = 0 THEN a
    ELSE IF a[i] > 0 THEN [a EXCEPT ![i] = a[i] - 1]
    ELSE PredFrom([a EXCEPT ![i] = LimbBase - 1], i - 1)

Pred(a) == PredFrom(a, Len(a))

(* ---------------------------------------------------------- discriminator *)

discriminator_no_uint16(N) ==
    IF Leq(N, UINT8_MAX) THEN 1
    ELSE IF Leq(N, UINT32_MAX) THEN 4
    ELSE 8

discriminator_lt(N) ==
    IF Leq(N, UINT8_MAX) /\ N # UINT8_MAX THEN 1
    ELSE IF Leq(N, UINT16_MAX) /\ N # UINT16_MAX THEN 2
    ELSE IF Leq(N, UINT32_MAX) /\ N # UINT32_MAX THEN 4
    ELSE 8

\* detail::discriminator<N>::type, as its sizeof: uint8_t 1, uint16_t 2,
\* uint32_t 4, size_t 8
discriminator(N) ==
    IF Leq(N, UINT8_MAX) THEN 1
    ELSE IF Leq(N, UINT16_MAX) THEN 2
    ELSE IF Leq(N, UINT32_MAX) THEN 4
    ELSE 8

\* variant<Ts...>::discriminator_v, as its sizeof
discriminator_v(L) == discriminator(Count(Len(L)))

\* arithmetic in an unsigned type of w bytes; a scan adds at most Len(L),
\* which only the two narrow types can wrap
Wrap(r, w) ==
    IF w = 1 THEN r % (uint8_max + 1)
    ELSE IF w = 2 THEN r % (uint16_max + 1)
    ELSE r

(* ------------------------------------------------------------------ layout *)

Max(a, b) == IF a >= b THEN a ELSE b

\* std::max over an initializer list, folded over L[lo..hi] by halves
RECURSIVE MaxOver(_, _, _, _)
MaxOver(f, L, lo, hi) ==
    IF lo = hi THEN f[L[lo]]
    ELSE LET mid == (lo + hi) \div 2
         IN  Max(MaxOver(f, L, lo, mid), MaxOver(f, L, mid + 1, hi))

SizeTable == [T \in Types |-> sizeof_(T)]

AlignTable == [T \in Types |-> alignof_(T)]

\* detail::max_size
max_size(L) == MaxOver(SizeTable, L, 1, Len(L))

\* detail::max_align
max_align(L) == MaxOver(AlignTable, L, 1, Len(L))

RoundUp(n, a) == ((n + a - 1) \div a) * a

\* alignof(variant<Ts...>): the strictest of its two members; an unsigned
\* integer type is aligned to its size
alignof_variant(L) == Max(max_align(L), discriminator_v(L))

sizeof_variant_packed(L) ==
    RoundUp(max_size(L) + discriminator_v(L), max_align(L))

\* sizeof(variant<Ts...>): storage_ at offset 0, discriminator_ at the next
\* offset aligned for it, the whole padded to the class alignment
sizeof_variant(L) ==
    RoundUp(RoundUp(max_size(L), discriminator_v(L)) + discriminator_v(L),
            alignof_variant(L))

(* ------------------------------------------------------------------- state *)

VARIABLES
    pack,           \* the type list: `lead` alternatives `of` one type, then `rest`
    pc,             \* "declared", "alive", "destroyed" or "terminated"
    storage_,       \* variant::storage_, max_size bytes
    discriminator_, \* variant::discriminator_
    val,            \* the tests' static std::int8_t val
    baseline,       \* val before the constructor ran
    temps,          \* whether a query expression has created a dummy object
    log,            \* the calls of detail::construct<T> / detail::destruct<T>
    last,           \* the call of the expression being evaluated, its outcome
    memo            \* an earlier query with the container's state at its end

vars ==
    <<pack, pc, storage_, discriminator_, val, baseline, temps, log, last,
      memo>>

\* the template parameter pack Ts...
Ts == [i \in 1..pack.lead |-> pack.of] \o pack.rest

\* a member that has not been initialised holds no usable value
Indeterminate == "indeterminate"

\* arguments and functor results handed to the accessors
Values(T) ==
    CASE T = "dummy" -> {DummyField}
      [] T = "long" -> {0, -100}
      [] OTHER -> {0, 2}

\* argument packs handed to get_or_invoke
ArgLists == {<<>>, <<1>>}

\* detail::discriminator is instantiated with these counts
DiscCounts ==
    {Count(1), Count(2), Pred(UINT8_MAX), UINT8_MAX, Succ(UINT8_MAX),
     UINT16_MAX, Succ(UINT16_MAX), Succ(Succ(UINT16_MAX)),
     UINT32_MAX, Succ(UINT32_MAX), Pred(SIZE_MAX), SIZE_MAX}

ShortLists == UNION {[1..n -> Types] : n \in 1..MaxTypes}

LongCounts == {uint8_max - 1, uint8_max, uint8_max + 1}

\* lists around the 255 / 256 boundary of the discriminator's first tier
LongPacks ==
    {[lead |-> n - 1, of |-> A, rest |-> <<B>>] :
        A \in {"dummy", "int"}, B \in {"dummy", "char16_t"}, n \in LongCounts}

\* static_assert(sizeof...(Ts)) and monotonic_validator: every list here is
\* non-empty and holds destructible non-array object types
TypeLists ==
    {[lead |-> 0, of |-> "dummy", rest |-> L] : L \in ShortLists}
        \cup LongPacks

NoCall ==
    [op |-> "none", T |-> "none", N |-> Count(0), arg |-> 0, args |-> <<>>,
     ok |-> TRUE, flag |-> FALSE, has |-> FALSE, value |-> 0,
     invoked |-> 0, passed |-> <<>>, compared |-> FALSE,
     size |-> 0, align |-> 0, msize |-> 0, malign |-> 0, temp |-> FALSE,
     throws |-> FALSE, aborted |-> FALSE, calls |-> <<>>]

(* ------------------------------------------------------------ side effects *)

\* ++val on a std::int8_t
inc8(v) == IF v + 1 > 127 THEN v + 1 - 256 ELSE v + 1

World == [storage |-> storage_, val |-> val, log |-> log]

Zeroes(n) == [i \in 1..n |-> 0]

\* detail::construct<T>(blob): new(blob) T(); dummy() increments val and
\* sets its field, a scalar is value-initialised
construct(T, w) ==
    IF T = "dummy"
    THEN [storage |-> [w.storage EXCEPT ![1] = DummyField],
          val     |-> inc8(w.val),
          log     |-> Append(w.log, <<"construct", T>>)]
    ELSE [storage |-> [i \in 1..Len(w.storage) |->
                          IF i <= sizeof_(T) THEN 0 ELSE w.storage[i]],
          val     |-> w.val,
          log     |-> Append(w.log, <<"construct", T>>)]

destruct_twice(T, w) ==
    [storage |-> w.storage,
     val     |-> IF T = "dummy" THEN DtorSentinel ELSE w.val,
     log     |-> w.log \o <<<<"destruct", T>>, <<"destruct", T>>>>]

\* detail::destruct<T>(blob): ~dummy() stores the sentinel in val, a scalar
\* has a pseudo-destructor
destruct(T, w) ==
    [storage |-> w.storage,
     val     |-> IF T = "dummy" THEN DtorSentinel ELSE w.val,
     log     |-> Append(w.log, <<"destruct", T>>)]

(* ------------------------------------------------------------- index_of *)

\* the accumulator of index_of applied to is_same_v<T, L[i]>: r += !equ
accumulator(T, L, i, st, w) ==
    LET equ == (L[i] = T)
    IN  [r |-> Wrap(st.r + (IF equ THEN 0 ELSE 1), w), equ |-> equ]

\* the fold (accumulator(...) || ...) over L[lo..hi], by halves: nothing
\* right of the first equal type is evaluated
RECURSIVE index_of_scan(_, _, _, _, _, _)
index_of_scan(T, L, lo, hi, st, w) ==
    IF lo = hi THEN accumulator(T, L, lo, st, w)
    ELSE LET mid  == (lo + hi) \div 2
             left == index_of_scan(T, L, lo, mid, st, w)
         IN  IF left.equ THEN left
             ELSE index_of_scan(T, L, mid + 1, hi, left, w)

index_of_no_short_circuit(T, L) ==
    Wrap(Cardinality({i \in 1..Len(L) : L[i] # T}), discriminator_v(L))

\* variant<L...>::index_of<T>(): discriminator_v r {0}, the fold, return r
index_of(T, L) ==
    index_of_scan(T, L, 1, Len(L), [r |-> 0, equ |-> FALSE],
                  discriminator_v(L)).r

(* ----------------------------------------------------- recursive_invoker *)

\* one level, recursive_invoker<L[i..]>::dynamic_destruct(blob, idx): idx is
\* converted to the discriminator type of variant<L[i..]> and compared with
\* the index of L[i] in that list
destruct_level(L, i, st) ==
    LET sub == SubSeq(L, i, Len(L))
        id  == Wrap(st.idx, discriminator_v(sub))
    IN  IF id = index_of(L[i], sub)
        THEN [w |-> destruct(L[i], st.w), idx |-> id, done |-> TRUE]
        ELSE [w |-> st.w, idx |-> id, done |-> FALSE]

\* the levels lo..hi of the recursion, by halves; a level that matches ends it
RECURSIVE destruct_levels(_, _, _, _)
destruct_levels(L, lo, hi, st) ==
    IF lo = hi THEN destruct_level(L, lo, st)
    ELSE LET mid  == (lo + hi) \div 2
             left == destruct_levels(L, lo, mid, st)
         IN  IF left.done THEN left
             ELSE destruct_levels(L, mid + 1, hi, left)

\* recursive_invoker<L...>::dynamic_destruct(blob, idx); the empty list's
\* specialisation does nothing
dynamic_destruct(L, idx, w) ==
    IF L = <<>> THEN w
    ELSE destruct_levels(L, 1, Len(L),
                         [w |-> w, idx |-> idx, done |-> FALSE]).w

\* one level of recursive_invoker<L[i], L[i+1], ...>::dynamic_construct,
\* with an empty constructor pack: as dynamic_destruct, with construct
construct_level(L, i, st) ==
    LET sub == SubSeq(L, i, Len(L))
        id  == Wrap(st.idx, discriminator_v(sub))
    IN  IF id = index_of(L[i], sub)
        THEN [w |-> construct(L[i], st.w), idx |-> id, done |-> TRUE]
        ELSE [w |-> st.w, idx |-> id, done |-> FALSE]

RECURSIVE construct_levels(_, _, _, _)
construct_levels(L, lo, hi, st) ==
    IF lo = hi THEN construct_level(L, lo, st)
    ELSE LET mid  == (lo + hi) \div 2
             left == construct_levels(L, lo, mid, st)
         IN  IF left.done THEN left
             ELSE construct_levels(L, mid + 1, hi, left)

\* recursive_invoker<L...>::dynamic_construct(blob, idx)
dynamic_construct(L, idx, w) ==
    IF L = <<>> THEN w
    ELSE construct_levels(L, 1, Len(L),
                          [w |-> w, idx |-> idx, done |-> FALSE]).w

(* ----------------------------------------------------------------- actions *)

\* no query has been remembered
NoMemo == [set |-> FALSE, call |-> NoCall, disc |-> 0, bytes |-> <<>>]

\* no expression is being evaluated
Idle == last = NoCall

Init ==
    /\ pack \in TypeLists
    /\ pc = "declared"
    /\ storage_ = <<>>
    /\ discriminator_ = Indeterminate
    /\ baseline \in 1..MaxBaseline
    /\ val = baseline
    /\ temps = FALSE
    /\ log = <<>>
    /\ last = NoCall
    /\ memo = NoMemo

initial_discriminator_one == 0 + 1

\* the constructor's member initialiser discriminator_ {0}
initial_discriminator == 0

\* variant::variant(): storage_ { }, discriminator_ {0}, then the first
\* alternative is constructed in place unless it is a scalar
Construct ==
    /\ Idle
    /\ pc = "declared"
    /\ LET zeroed == [World EXCEPT !.storage = Zeroes(max_size(Ts))]
           w      == IF ~is_scalar(Ts[1]) THEN construct(Ts[1], zeroed)
                     ELSE zeroed
       IN  /\ storage_' = w.storage
           /\ val' = w.val
           /\ log' = w.log
    /\ discriminator_' = initial_discriminator
    /\ pc' = "alive"
    /\ UNCHANGED <<pack, baseline, temps, last, memo>>

\* variant::~variant()
Destroy ==
    /\ Idle
    /\ pc = "alive"
    /\ LET w == dynamic_destruct(Ts, discriminator_, World)
       IN  /\ storage_' = w.storage
           /\ val' = w.val
           /\ log' = w.log
    /\ pc' = "destroyed"
    /\ UNCHANGED <<pack, discriminator_, baseline, temps, last, memo>>

(* ---------------------------------------------------------------- queries *)

\* the object representation b[i..n], least significant byte first, as a
\* number; a signed type is two's complement
RECURSIVE Decode(_, _, _, _)
Decode(b, i, n, signed) ==
    IF i = n THEN (IF signed /\ b[i] >= 128 THEN b[i] - 256 ELSE b[i])
    ELSE b[i] + 256 * Decode(b, i + 1, n, signed)

\* access_as<T>(): the first sizeof(T) bytes of storage_ read as a T (a
\* dummy is its field, a float its bit pattern)
access_as(T) == Decode(storage_, 1, sizeof_(T), T # "char16_t")

\* T { }
DefaultValue(T) == IF T = "dummy" THEN DummyField ELSE 0

\* what a query expression on T does besides the call: `ctor` when it runs
\* dummy() (T { }, a dummy argument, the functor's result), `temp` when it
\* holds a T object until its end
Expression(T, ctor, temp) ==
    /\ val' = IF T = "dummy" /\ ctor THEN inc8(val) ELSE val
    /\ temps' = (temps \/ (T = "dummy" /\ (ctor \/ temp)))

Frame_storage_cleared ==
    /\ storage_' = Zeroes(Len(storage_))
    /\ UNCHANGED <<pack, pc, discriminator_, baseline, log, memo>>

\* what no const member function and no expression around it writes: the
\* members storage_ and discriminator_ among it
Frame ==
    UNCHANGED <<pack, pc, storage_, discriminator_, baseline, log, memo>>

\* variant::index()
Index ==
    /\ Idle
    /\ pc = "alive"
    /\ last' = [NoCall EXCEPT !.op = "index", !.value = discriminator_]
    /\ UNCHANGED <<val, temps>>
    /\ Frame

\* a call of the static variant::index_of<T>()
IndexOf ==
    \E T \in Types :
        /\ Idle
        /\ last' = [NoCall EXCEPT !.op = "index_of", !.T = T,
                                  !.value = index_of(T, Ts)]
        /\ UNCHANGED <<val, temps>>
        /\ Frame

\* variant::holds_alternative<T>()
holds_alternative(T) == discriminator_ = index_of(T, Ts)

HoldsAlternative ==
    \E T \in Types :
        /\ Idle
        /\ pc = "alive"
        /\ last' = [NoCall EXCEPT !.op = "holds_alternative", !.T = T,
                                  !.flag = holds_alternative(T)]
        /\ UNCHANGED <<val, temps>>
        /\ Frame

holds_value_eager(T, other) ==
    [flag     |-> (discriminator_ = index_of(T, Ts)) /\ access_as(T) = other,
     compared |-> TRUE]

\* variant::holds_value<T>(other): && evaluates access_as<T>() == other only
\* when the discriminator matched
holds_value(T, other) ==
    IF discriminator_ = index_of(T, Ts)
    THEN [flag |-> access_as(T) = other, compared |-> TRUE]
    ELSE [flag |-> FALSE, compared |-> FALSE]

HoldsValue ==
    \E T \in Types : \E other \in Values(T) :
        /\ Idle
        /\ pc = "alive"
        /\ IF has_equality(T)
           THEN LET r == holds_value(T, other)
                IN  last' = [NoCall EXCEPT !.op = "holds_value", !.T = T,
                                           !.arg = other, !.flag = r.flag,
                                           !.compared = r.compared]
           ELSE last' = [NoCall EXCEPT !.op = "holds_value", !.T = T,
                                       !.arg = other, !.ok = FALSE]
        /\ UNCHANGED <<val, temps>>
        /\ Frame

get_flipped(T) ==
    IF holds_alternative(T)
    THEN [has |-> FALSE, value |-> 0]
    ELSE [has |-> TRUE, value |-> DefaultValue(T)]

\* variant::get<T>()
get(T) ==
    IF holds_alternative(T)
    THEN [has |-> TRUE, value |-> access_as(T)]
    ELSE [has |-> FALSE, value |-> 0]

Get ==
    \E T \in Types :
        /\ Idle
        /\ pc = "alive"
        /\ LET r == get(T)
           IN  /\ last' = [NoCall EXCEPT !.op = "get", !.T = T,
                                         !.has = r.has, !.value = r.value,
                                         !.temp = (T = "dummy" /\ r.has)]
               /\ Expression(T, FALSE, r.has)
        /\ Frame

\* variant::get_or_default<T>()
get_or_default(T) ==
    IF holds_alternative(T) THEN access_as(T) ELSE DefaultValue(T)

GetOrDefault ==
    \E T \in Types :
        /\ Idle
        /\ pc = "alive"
        /\ last' = [NoCall EXCEPT !.op = "get_or_default", !.T = T,
                                  !.value = get_or_default(T),
                                  !.temp = (T = "dummy")]
        /\ Expression(T, ~holds_alternative(T), TRUE)
        /\ Frame

get_or_custom_value_defaulted(T, instead) ==
    IF holds_alternative(T) THEN access_as(T) ELSE DefaultValue(T)

\* variant::get_or_custom_value<T>(instead)
get_or_custom_value(T, instead) ==
    IF holds_alternative(T) THEN access_as(T) ELSE instead

GetOrCustomValue ==
    \E T \in Types : \E instead \in Values(T) :
        /\ Idle
        /\ pc = "alive"
        /\ last' = [NoCall EXCEPT !.op = "get_or_custom_value", !.T = T,
                                  !.arg = instead,
                                  !.value = get_or_custom_value(T, instead),
                                  !.temp = (T = "dummy")]
        /\ Expression(T, TRUE, TRUE)
        /\ Frame

\* std::forward<Args>()... names std::forward with no argument once per
\* element of the pack: the expression is well-formed for the empty pack only
forward_args_well_formed(args) == args = <<>>

\* variant::get_or_invoke<T>(functor, args...): the functor, modelled by the
\* value it returns, is invoked as std::invoke(functor) on a mismatch
get_or_invoke(T, result, args) ==
    IF holds_alternative(T)
    THEN [value |-> access_as(T), invoked |-> 0, passed |-> <<>>]
    ELSE [value |-> result, invoked |-> 1, passed |-> <<>>]

\* get_or_invoke is declared noexcept(true): an exception thrown by the
\* functor cannot leave it, std::terminate is called instead
escapes_noexcept(throws, invoked) == throws /\ invoked > 0

\* a call of get_or_invoke<T> with a functor that returns `result`, or throws
\* when `throws`
GetOrInvoke ==
    \E T \in Types : \E result \in Values(T) : \E args \in ArgLists :
    \E throws \in BOOLEAN :
        /\ Idle
        /\ pc = "alive"
        /\ IF ~forward_args_well_formed(args)
           THEN /\ last' = [NoCall EXCEPT !.op = "get_or_invoke", !.T = T,
                                    !.arg = result, !.args = args,
                                    !.throws = throws, !.ok = FALSE]
                /\ UNCHANGED <<val, temps, pc>>
           ELSE LET r == get_or_invoke(T, result, args)
                IN  IF escapes_noexcept(throws, r.invoked)
                    THEN /\ last' = [NoCall EXCEPT !.op = "get_or_invoke",
                                        !.T = T, !.arg = result,
                                        !.args = args, !.throws = throws,
                                        !.invoked = r.invoked,
                                        !.passed = r.passed,
                                        !.aborted = TRUE]
                         /\ pc' = "terminated"
                         /\ UNCHANGED <<val, temps>>
                    ELSE /\ last' = [NoCall EXCEPT !.op = "get_or_invoke",
                                        !.T = T, !.arg = result,
                                        !.args = args, !.throws = throws,
                                        !.value = r.value,
                                        !.invoked = r.invoked,
                                        !.passed = r.passed,
                                        !.temp = (T = "dummy")]
                         /\ Expression(T, r.invoked > 0, TRUE)
                         /\ UNCHANGED pc
        /\ UNCHANGED <<pack, storage_, discriminator_, baseline, log, memo>>

\* an instantiation of detail::discriminator<N>
Discriminator ==
    \E N \in DiscCounts :
        /\ Idle
        /\ last' = [NoCall EXCEPT !.op = "discriminator", !.N = N,
                                  !.size = discriminator(N)]
        /\ UNCHANGED <<val, temps>>
        /\ Frame

\* sizeof / alignof of the instantiation and its detail::max_size, max_align
Layout ==
    /\ Idle
    /\ last' = [NoCall EXCEPT !.op = "sizeof", !.N = Count(Len(Ts)),
                              !.size = sizeof_variant(Ts),
                              !.align = alignof_variant(Ts),
                              !.msize = max_size(Ts),
                              !.malign = max_align(Ts)]
    /\ UNCHANGED <<val, temps>>
    /\ Frame

\* the values of idx passed to recursive_invoker<Ts...>: the ends of the
\* list and the first values past it that mapping::discriminator_v holds
IndexInputs ==
    {i \in {0, 1, 2, Len(Ts) - 1, Len(Ts), Len(Ts) + 1} :
        i >= 0 /\ Wrap(i, discriminator_v(Ts)) = i}

\* a blob of max_size bytes outside the container, with an empty record of
\* the constructor and destructor calls made on it
Blob == [storage |-> Zeroes(max_size(Ts)), val |-> val, log |-> <<>>]

touches_dummy(calls) == \E k \in 1..Len(calls) : calls[k][2] = "dummy"

\* detail::recursive_invoker<Ts...>::dynamic_destruct(blob, idx), called while
\* no dummy made outside the container has yet changed val
DynamicDestruct ==
    \E idx \in IndexInputs :
        /\ Idle
        /\ pc = "alive"
        /\ ~temps
        /\ LET w == dynamic_destruct(Ts, idx, Blob)
           IN  /\ last' = [NoCall EXCEPT !.op = "dynamic_destruct",
                                         !.arg = idx, !.calls = w.log]
               /\ val' = w.val
               /\ temps' = (temps \/ touches_dummy(w.log))
        /\ Frame

\* detail::recursive_invoker<Ts...>::dynamic_construct(blob, idx)
DynamicConstruct ==
    \E idx \in IndexInputs :
        /\ Idle
        /\ pc = "alive"
        /\ ~temps
        /\ LET w == dynamic_construct(Ts, idx, Blob)
           IN  /\ last' = [NoCall EXCEPT !.op = "dynamic_construct",
                                         !.arg = idx, !.calls = w.log]
               /\ val' = w.val
               /\ temps' = (temps \/ touches_dummy(w.log))
        /\ Frame

\* the end of the full-expression: its temporaries are destroyed, ~dummy()
\* running on a dummy, and its value is dropped
EndOfExpression ==
    /\ ~Idle
    /\ pc # "terminated"
    /\ val' = IF last.temp THEN DtorSentinel ELSE val
    /\ last' = NoCall
    /\ UNCHANGED temps
    /\ Frame

\* the const member functions of variant
QueryCalls ==
    {"index", "index_of", "holds_alternative", "holds_value", "get",
     "get_or_default", "get_or_custom_value", "get_or_invoke"}

\* the end of a query's full-expression, as EndOfExpression, with the call,
\* its outcome and the container's members kept for a later comparison
Remember ==
    /\ pc = "alive"
    /\ last.op \in QueryCalls
    /\ ~memo.set
    /\ memo' = [set |-> TRUE, call |-> last, disc |-> discriminator_,
                bytes |-> storage_]
    /\ val' = IF last.temp THEN DtorSentinel ELSE val
    /\ last' = NoCall
    /\ UNCHANGED <<pack, pc, storage_, discriminator_, baseline, temps, log>>

Next ==
    \/ Construct
    \/ Destroy
    \/ Index
    \/ IndexOf
    \/ HoldsAlternative
    \/ HoldsValue
    \/ Get
    \/ GetOrDefault
    \/ GetOrCustomValue
    \/ GetOrInvoke
    \/ Discriminator
    \/ Layout
    \/ DynamicDestruct
    \/ DynamicConstruct
    \/ EndOfExpression

Spec == Init /\ [][Next]_vars

\* the variants the tests declare and query, and a few more
RepeatLists ==
    {<<"int", "float", "long">>, <<"dummy", "char16_t">>, <<"dummy">>,
     <<"long", "long">>, <<"char16_t", "dummy", "int">>}

InitRepeat == Init /\ Ts \in RepeatLists

NextRepeat == Next \/ Remember

\* the runs in which one query is remembered and queries go on
SpecRepeat == InitRepeat /\ [][NextRepeat]_vars

(* ------------------------------------------------------------------ claims *)

\* the alternatives of the instantiation
Listed == {Ts[i] : i \in 1..Len(Ts)}

\* the position, counted from 0, at which T first appears in the list
FirstPosition(T) ==
    (CHOOSE i \in 1..Len(Ts) :
        Ts[i] = T /\ \A j \in 1..(i - 1) : Ts[j] # T) - 1

\* the alternative the discriminator names
ActiveType == Ts[discriminator_ + 1]

\* the value the default constructor leaves in the slot
StoredValue == IF Ts[1] = "dummy" THEN DummyField ELSE 0

\* C1: after default construction index() is 0, the first alternative is
\* the one held, and index() equals index_of<T_0>()
C1_DefaultConstruction ==
    /\ pc = "alive" =>
          /\ discriminator_ = 0
          /\ discriminator_ = index_of(Ts[1], Ts)
    /\ (pc = "alive" /\ last.op = "index") => last.value = 0
    /\ (pc = "alive" /\ last.op = "holds_alternative" /\ last.T = Ts[1])
          => last.flag

C1_Witness ==
    /\ pc = "alive"
    /\ Len(Ts) = 3
    /\ last.op = "holds_alternative"
    /\ last.T = Ts[1]
    /\ last.flag

\* C2 as stated: index_of<T_i>() returns i for every position i of the list
C2_Original ==
    last.op = "index_of" =>
        \A i \in 1..Len(Ts) : Ts[i] = last.T => last.value = i - 1

\* C2: index_of<T_i>() returns the position of the first occurrence of T_i,
\* which is i for every position whose type does not appear earlier in the
\* list (every position, when the types are pairwise distinct)
C2_IndexOfFirstOccurrence ==
    last.op = "index_of" =>
        \A i \in 1..Len(Ts) :
            (Ts[i] = last.T /\ \A j \in 1..(i - 1) : Ts[j] # last.T)
                => last.value = i - 1

C2_Witness ==
    /\ last.op = "index_of"
    /\ Len(Ts) = 3
    /\ Cardinality(Listed) = 3
    /\ last.T = Ts[3]
    /\ last.value = 2

\* C3: for a listed T, get<T>() holds a value exactly when the discriminator
\* is the index of T, and the value is then the stored one
C3_Get ==
    (last.op = "get" /\ last.T \in Listed) =>
        /\ last.ok
        /\ last.has <=> (discriminator_ = FirstPosition(last.T))
        /\ last.has => last.value = StoredValue

C3_Witness ==
    /\ last.op = "get"
    /\ Ts = <<"dummy", "char16_t">>
    /\ last.T = "dummy"
    /\ last.has
    /\ last.value = DummyField

\* C4 as stated: for a listed T and any argument pack, get_or_invoke<T>
\* returns the stored value without invoking the functor when T is active,
\* and otherwise invokes it once with the pack and returns its result
C4_Original ==
    (last.op = "get_or_invoke" /\ last.T \in Listed) =>
        /\ last.ok
        /\ IF ActiveType = last.T
           THEN last.value = StoredValue /\ last.invoked = 0
           ELSE /\ last.invoked = 1
                /\ last.passed = last.args
                /\ last.value = last.arg

\* C5: for a listed T with an equality operator, holds_value<T>(v) is false
\* and compares nothing when T is not active, and is true exactly when the
\* stored value equals v when T is active
C5_HoldsValue ==
    (last.op = "holds_value" /\ last.ok /\ last.T \in Listed) =>
        IF ActiveType = last.T
        THEN last.flag <=> (StoredValue = last.arg)
        ELSE ~last.flag /\ ~last.compared

C5_Witness ==
    /\ last.op = "holds_value"
    /\ Ts = <<"int", "float", "long">>
    /\ last.T = "int"
    /\ last.arg = 0
    /\ last.flag
    /\ last.compared

\* C6: with dummy first, nothing is constructed before the constructor, the
\* container's lifetime is one construction of dummy followed by one
\* destruction of dummy and of nothing else, val is baseline + 1 while the
\* container is alive (no query expression having made a dummy of its own)
\* and the sentinel once it is destroyed
C6_Lifetime ==
    Ts[1] = "dummy" =>
        /\ pc = "declared" => (log = <<>> /\ val = baseline)
        /\ pc = "alive" =>
              /\ log = << <<"construct", "dummy">> >>
              /\ ~temps => val = baseline + 1
        /\ pc = "destroyed" =>
              /\ log = << <<"construct", "dummy">>, <<"destruct", "dummy">> >>
              /\ val = DtorSentinel

C6_Witness ==
    /\ pc = "destroyed"
    /\ Ts = <<"dummy", "char16_t">>
    /\ baseline = 1
    /\ ~temps
    /\ val = DtorSentinel

\* the width in bytes the four tiers give a count <<a, b, c, d>>
TierBytes(N) ==
    IF N[1] = 0 /\ N[2] = 0 /\ N[3] = 0 /\ N[4] <= 255 THEN 1
    ELSE IF N[1] = 0 /\ N[2] = 0 /\ N[3] = 0 THEN 2
    ELSE IF N[1] = 0 /\ N[2] = 0 THEN 4
    ELSE 8

\* C7: discriminator<n> is 1 byte wide for n <= 255, 2 bytes for
\* 255 < n <= 65535, 4 bytes for 65535 < n <= 2^32 - 1 and 8 bytes (size_t)
\* beyond, the six boundary counts included
C7_DiscriminatorTiers ==
    last.op = "discriminator" =>
        /\ last.size = TierBytes(last.N)
        /\ last.N = <<0, 0, 0, 255>> => last.size = 1
        /\ last.N = <<0, 0, 0, 256>> => last.size = 2
        /\ last.N = <<0, 0, 0, 65535>> => last.size = 2
        /\ last.N = <<0, 0, 1, 0>> => last.size = 4
        /\ last.N = <<0, 0, 65535, 65535>> => last.size = 4
        /\ last.N = <<0, 1, 0, 0>> => last.size = 8

C7_Witness ==
    /\ last.op = "discriminator"
    /\ last.N = <<0, 1, 0, 0>>
    /\ last.size = 8

\* whether an unsigned integer of w bytes can hold the count m
Fits(m, w) ==
    /\ \A k \in 1..(4 - (w + 1) \div 2) : m[k] = 0
    /\ w = 1 => m[4] <= 255

Widths == {1, 2, 4, 8}

\* the narrowest of the four widths that holds m
NarrowestFor(m) ==
    CHOOSE w \in Widths :
        Fits(m, w) /\ \A u \in Widths : Fits(m, u) => w <= u

\* C8 as stated: the discriminator is the narrowest of the four widths that
\* holds every index 0..n-1
C8_Original ==
    last.op = "discriminator" => last.size = NarrowestFor(Pred(last.N))

\* C8: the discriminator is the narrowest of the four widths that holds the
\* type count n itself (so it holds every index, and is one tier wider than
\* the indices need at n = 256, n = 65536 and n = 2^32)
C8_NarrowestForCount ==
    last.op = "discriminator" => last.size = NarrowestFor(last.N)

C8_Witness ==
    /\ last.op = "discriminator"
    /\ last.N = <<0, 0, 0, 256>>
    /\ last.size = 2
    /\ NarrowestFor(Pred(last.N)) = 1

\* the largest size and the largest alignment among the alternatives
LargestSize ==
    CHOOSE m \in {sizeof_(T) : T \in Listed} :
        \A T \in Listed : sizeof_(T) <= m

LargestAlign ==
    CHOOSE m \in {alignof_(T) : T \in Listed} :
        \A T \in Listed : alignof_(T) <= m

\* the least multiple of a that is at least n
LeastMultiple(n, a) ==
    CHOOSE m \in n..(n + a) : m % a = 0 /\ \A k \in n..(m - 1) : k % a # 0

\* C9 as stated: sizeof(variant) is max size + discriminator size rounded up
\* to the largest member alignment, alignof(variant) is the largest member
\* alignment, and max_size / max_align are the two maxima
C9_Original ==
    last.op = "sizeof" =>
        /\ last.msize = LargestSize
        /\ last.malign = LargestAlign
        /\ last.size =
              LeastMultiple(LargestSize + TierBytes(last.N), LargestAlign)
        /\ last.align = LargestAlign

\* C9: max_size and max_align are the two maxima; alignof(variant) is the
\* larger of the largest member alignment and the discriminator's own
\* alignment; sizeof(variant) is the least multiple of alignof(variant) that
\* holds the storage followed by the discriminator at the first offset
\* aligned for it.  With at most 255 alternatives (a 1-byte discriminator)
\* these are max size + 1 rounded up to the largest member alignment, and
\* the largest member alignment; variant<dummy, char16_t> has size 4
C9_Layout ==
    last.op = "sizeof" =>
        LET d   == TierBytes(last.N)
            off == LeastMultiple(LargestSize, d)
        IN  /\ last.msize = LargestSize
            /\ last.malign = LargestAlign
            /\ last.align = (IF d > LargestAlign THEN d ELSE LargestAlign)
            /\ last.size = LeastMultiple(off + d, last.align)
            /\ Len(Ts) <= 255 =>
                  /\ last.align = LargestAlign
                  /\ last.size = LeastMultiple(LargestSize + 1, LargestAlign)
            /\ Ts = <<"dummy", "char16_t">> =>
                  (last.size = 4 /\ last.msize = 2 /\ last.malign = 2)

C9_Witness ==
    /\ last.op = "sizeof"
    /\ Len(Ts) = 256
    /\ LargestAlign = 1
    /\ last.size = 4
    /\ last.align = 2

TypedCalls ==
    {"index_of", "holds_alternative", "holds_value", "get", "get_or_default",
     "get_or_custom_value", "get_or_invoke"}

\* C10 as stated: a call of index_of<T> or of a typed accessor with a T that
\* is not in the type list is rejected and produces no index and no value
C10_Original ==
    (last.op \in TypedCalls /\ last.T \notin Listed) => ~last.ok

\* the calls that ask the container for an alternative
TypedQueries == QueryCalls \ {"index", "index_of"}

\* C11 as stated: a well-formed query or extraction of an inactive listed
\* alternative, get_or_invoke with any functor included, ends in a returned
\* value and never in an exception or a program abort
C11_Original ==
    (/\ last.op \in TypedQueries
     /\ last.ok
     /\ last.T \in Listed
     /\ ActiveType # last.T)
        => (~last.aborted /\ pc = "alive")

\* T { } as the language defines it: zero for a scalar, the constructor's
\* field for a dummy
ValueInitialised(T) == IF T = "dummy" THEN DummyField ELSE 0

\* C12: for a listed T, get_or_default<T>() and get_or_custom_value<T>(f)
\* return the stored value when T is active; on a mismatch the first returns
\* T { } and the second returns f.  On a default-constructed
\* variant<int, float, long>: get_or_default<float>() == 0.0f,
\* get_or_custom_value<int>(2) == 0, get_or_custom_value<long>(-100) == -100
C12_FallbackExtraction ==
    /\ (last.op = "get_or_default" /\ last.T \in Listed) =>
          /\ last.ok
          /\ last.value = IF ActiveType = last.T THEN StoredValue
                          ELSE ValueInitialised(last.T)
    /\ (last.op = "get_or_custom_value" /\ last.T \in Listed) =>
          /\ last.ok
          /\ last.value = IF ActiveType = last.T THEN StoredValue
                          ELSE last.arg
    /\ (Ts = <<"int", "float", "long">> /\ pc = "alive") =>
          /\ (last.op = "get_or_default" /\ last.T = "float") =>
                last.value = 0
          /\ (last.op = "get_or_custom_value" /\ last.T = "int"
                /\ last.arg = 2) => last.value = 0
          /\ (last.op = "get_or_custom_value" /\ last.T = "long"
                /\ last.arg = -100) => last.value = -100

C12_Witness ==
    /\ Ts = <<"int", "float", "long">>
    /\ last.op = "get_or_custom_value"
    /\ last.T = "long"
    /\ last.arg = -100
    /\ last.value = -100

\* the calls the claim expects of a dispatch on idx: one call `what` on the
\* type at position idx, none when idx is past the list
Dispatched(what, idx) ==
    IF idx < Len(Ts) THEN << <<what, Ts[idx + 1]>> >> ELSE <<>>

\* C13 as stated: dynamic_destruct(blob, idx) runs the destructor of exactly
\* the type at position idx and dynamic_construct(blob, idx) the constructor
\* of exactly that type; for idx past the list neither does anything; so the
\* container's destructor destroys the alternative its discriminator names
C13_Original ==
    /\ last.op = "dynamic_destruct" =>
          last.calls = Dispatched("destruct", last.arg)
    /\ last.op = "dynamic_construct" =>
          last.calls = Dispatched("construct", last.arg)
    /\ pc = "destroyed" =>
          log[Len(log)] = <<"destruct", ActiveType>>

\* the same query asked again: the same operation with the same type
\* argument, fallback, callable and argument pack
SameQuery(a, b) ==
    /\ a.op = b.op
    /\ a.T = b.T
    /\ a.arg = b.arg
    /\ a.args = b.args
    /\ a.throws = b.throws

\* C14: after construction and any sequence of queries the discriminator and
\* the storage bytes are those an earlier query left, the discriminator is a
\* valid index naming the same alternative, and a repeated query has the
\* same result
C14_QueriesFrame ==
    (memo.set /\ pc \in {"alive", "terminated"}) =>
        /\ discriminator_ = memo.disc
        /\ storage_ = memo.bytes
        /\ discriminator_ \in 0..(Len(Ts) - 1)
        /\ ActiveType = Ts[memo.disc + 1]
        /\ SameQuery(last, memo.call) => last = memo.call

C14_Witness ==
    /\ memo.set
    /\ Ts = <<"dummy", "char16_t">>
    /\ memo.call.op = "get_or_custom_value"
    /\ memo.call.T = "char16_t"
    /\ last = memo.call
    /\ last.value = 2
    /\ storage_ = memo.bytes
    /\ storage_[1] = DummyField

====
